---- MODULE Spec2Model ----
(***************************************************************************)
(* The HTML tokenizer of saba_core (renderer/html/token.rs) with its       *)
(* Attribute builder (renderer/html/attribute.rs), as a state machine.     *)
(*                                                                         *)
(* One action per arm of `match self.state` in HtmlTokenizer::next: an     *)
(* action is one iteration of the `loop` (read a character, run the arm).  *)
(* The action `next` is the entry of a pull (token.rs:165-167).            *)
(*                                                                         *)
(* Url (url.rs) and HttpResponse (http.rs) are pure string functions; each *)
(* has a specification of its own, UrlSpec and HttpSpec, that constructs   *)
(* the object from a string of a bounded set and calls its methods.        *)
(*                                                                         *)
(* Characters are one-character strings, Rust Strings and Vec<char> are    *)
(* sequences of characters.  Rust indexes from 0, TLA+ from 1: input[i]    *)
(* of the source is input[i + 1] here.                                     *)
(*                                                                         *)
(* The source as given has three slips that keep it from compiling; the    *)
(* model reads them as what they evidently stand for:                      *)
(*   token.rs:196  self.is_ascii_alphabetic()  read as  c.is_ascii_...     *)
(*   token.rs:208  state::Data                 read as  State::Data        *)
(*   token.rs:110-116 take_latest_token computes `t` and is declared to    *)
(*                 return Option<HtmlToken>: read as returning `t`.        *)
(***************************************************************************)
EXTENDS Integers, Sequences, FiniteSets, TLC

VARIABLES
    state,          \* HtmlTokenizer.state
    pos,            \* HtmlTokenizer.pos
    reconsume,      \* HtmlTokenizer.reconsume
    latest_token,   \* HtmlTokenizer.latest_token (None or a tag token)
    input,          \* HtmlTokenizer.input
    buf,            \* HtmlTokenizer.buf
    pc,             \* where the caller is: "idle" between pulls, "loop" inside
                    \* next()'s loop, "done" after next() returned None,
                    \* "panic" after the pull aborted
    ret,            \* what the last finished pull returned (None, or the token)
    out,            \* the Some(token) values returned so far, in order
    panic,          \* "none", or the kind of abort
    switched,       \* the collaborator has set the state to ScriptData
    deferred,       \* tag tokens that were pending when '>' was read by an arm
                    \* that goes to Data without returning
    url,            \* the Url object of url.rs (its five fields), once constructed
    url_result,     \* what Url::parse returned
    raw_response,   \* the argument of HttpResponse::new (http.rs)
    response,       \* what HttpResponse::new returned, or that it aborted
    lookup          \* the last header_value call: its name and its result

tokvars == <<state, pos, reconsume, latest_token, input, buf, pc, ret, out, panic,
             switched, deferred>>
urlvars == <<url, url_result>>
httpvars == <<raw_response, response, lookup>>
vars == <<tokvars, urlvars, httpvars>>

\* nothing constructed, nothing called yet
NoValue == [kind |-> "none"]
NoUrlNoResponse ==
    /\ url = NoValue
    /\ url_result = NoValue
    /\ raw_response = <<>>
    /\ response = NoValue
    /\ lookup = NoValue

----------------------------------------------------------------------------
(* Bounds of the model *)

\* every input over Sigma up to this length is tokenized
MaxLen == 4
\* every input made of one of Prefixes followed by at most this many characters
MaxTail == 3
\* the iterations of one pull that are followed when a run of reads is measured
MaxRun == 4

----------------------------------------------------------------------------
(* Characters *)

LowerSeq == <<"a","b","c","d","e","f","g","h","i","j","k","l","m",
              "n","o","p","q","r","s","t","u","v","w","x","y","z">>
UpperSeq == <<"A","B","C","D","E","F","G","H","I","J","K","L","M",
              "N","O","P","Q","R","S","T","U","V","W","X","Y","Z">>
Range(s) == {s[i] : i \in DOMAIN s}
LowerLetters == Range(LowerSeq)
UpperLetters == Range(UpperSeq)

is_ascii_uppercase(c) == c \in UpperLetters
is_ascii_alphabetic(c) == c \in LowerLetters \cup UpperLetters
to_ascii_lowercase(c) ==
    IF c \in UpperLetters
    THEN LowerSeq[CHOOSE i \in DOMAIN UpperSeq : UpperSeq[i] = c]
    ELSE c

----------------------------------------------------------------------------
(* HtmlToken, Attribute *)

None == [kind |-> "None"]
Eof == [kind |-> "Eof"]
CharTok(c) == [kind |-> "Char", c |-> c]
StartTagTok(tag, sc, attrs) ==
    [kind |-> "StartTag", tag |-> tag, self_closing |-> sc, attributes |-> attrs]
EndTagTok(tag) == [kind |-> "EndTag", tag |-> tag]

AttributeNew == [name |-> <<>>, value |-> <<>>]
add_char(a, c, is_name) ==
    IF is_name THEN [a EXCEPT !.name = Append(@, c)]
    ELSE [a EXCEPT !.value = Append(@, c)]

----------------------------------------------------------------------------
(* The tokenizer as a record, and the builder methods on it *)

Self == [state |-> state, pos |-> pos, reconsume |-> reconsume,
         latest_token |-> latest_token, input |-> input, buf |-> buf]

is_eof(t) == t.pos > Len(t.input)

\* consume_next_input / reconsume_input: ok = FALSE is the index panic
\* (input[pos] with pos >= len, or pos - 1 with pos = 0).
\* a read that yields a blank and still advances at the end of the input
ReadInput_Over(t) ==
    IF t.reconsume
    THEN IF t.pos >= 1 /\ t.pos <= Len(t.input)
         THEN [ok |-> TRUE, c |-> t.input[t.pos], t |-> [t EXCEPT !.reconsume = FALSE]]
         ELSE [ok |-> FALSE, c |-> "", t |-> [t EXCEPT !.reconsume = FALSE]]
    ELSE IF t.pos < Len(t.input)
         THEN [ok |-> TRUE, c |-> t.input[t.pos + 1], t |-> [t EXCEPT !.pos = @ + 1]]
         ELSE [ok |-> TRUE, c |-> ">", t |-> [t EXCEPT !.pos = @ + 1]]

ReadInput_Mut(t) ==
    IF t.reconsume
    THEN IF t.pos >= 1 /\ t.pos <= Len(t.input)
         THEN [ok |-> TRUE, c |-> t.input[t.pos],
               t |-> [t EXCEPT !.reconsume = FALSE, !.pos = @ - 1]]
         ELSE [ok |-> FALSE, c |-> "", t |-> [t EXCEPT !.reconsume = FALSE]]
    ELSE IF t.pos < Len(t.input)
         THEN [ok |-> TRUE, c |-> t.input[t.pos + 1], t |-> [t EXCEPT !.pos = @ + 1]]
         ELSE [ok |-> FALSE, c |-> "", t |-> t]
ReadInput(t) ==
    IF t.reconsume
    THEN IF t.pos >= 1 /\ t.pos <= Len(t.input)
         THEN [ok |-> TRUE, c |-> t.input[t.pos], t |-> [t EXCEPT !.reconsume = FALSE]]
         ELSE [ok |-> FALSE, c |-> "", t |-> [t EXCEPT !.reconsume = FALSE]]
    ELSE IF t.pos < Len(t.input)
         THEN [ok |-> TRUE, c |-> t.input[t.pos + 1], t |-> [t EXCEPT !.pos = @ + 1]]
         ELSE [ok |-> FALSE, c |-> "", t |-> t]

\* What an arm does with the loop: `continue` (or fall to the end of the arm),
\* `return Some(token)`, or a panic inside a builder method.
Continue(t) == [t |-> t, ctl |-> "continue", val |-> None]
Return(t, tok) == [t |-> t, ctl |-> "return", val |-> tok]
Panic(t, kind) == [t |-> t, ctl |-> "panic", val |-> [kind |-> kind]]

IsTag(tok) == tok.kind \in {"StartTag", "EndTag"}

create_tag(t, start_tag_token) ==
    [t EXCEPT !.latest_token =
        IF start_tag_token THEN StartTagTok(<<>>, FALSE, <<>>) ELSE EndTagTok(<<>>)]

append_tag_name(t, c) ==
    IF t.latest_token.kind = "None" THEN Panic(t, "assert")
    ELSE IF ~IsTag(t.latest_token) THEN Panic(t, "builder")
    ELSE Continue([t EXCEPT !.latest_token.tag = Append(@, c)])

\* a slip in take_latest_token: latest_token is not reset to None
take_latest_token_Mut(t) ==
    IF t.latest_token.kind = "None" THEN Panic(t, "assert")
    ELSE Return(t, t.latest_token)

take_latest_token(t) ==
    IF t.latest_token.kind = "None" THEN Panic(t, "assert")
    ELSE Return([t EXCEPT !.latest_token = None], t.latest_token)

start_new_attribute(t) ==
    IF t.latest_token.kind = "None" THEN Panic(t, "assert")
    ELSE IF t.latest_token.kind # "StartTag" THEN Panic(t, "builder")
    ELSE Continue([t EXCEPT !.latest_token.attributes = Append(@, AttributeNew)])

append_attribute(t, c, is_name) ==
    IF t.latest_token.kind = "None" THEN Panic(t, "assert")
    ELSE IF t.latest_token.kind # "StartTag" THEN Panic(t, "builder")
    ELSE IF Len(t.latest_token.attributes) = 0 THEN Panic(t, "assert")
    ELSE Continue([t EXCEPT !.latest_token.attributes[Len(t.latest_token.attributes)] =
                        add_char(@, c, is_name)])

\* a slip in set_self_closing_flag: the flag is left as it was
set_self_closing_flag_Mut(t) ==
    IF t.latest_token.kind = "None" THEN Panic(t, "assert")
    ELSE IF t.latest_token.kind # "StartTag" THEN Panic(t, "builder")
    ELSE Continue(t)

set_self_closing_flag(t) ==
    IF t.latest_token.kind = "None" THEN Panic(t, "assert")
    ELSE IF t.latest_token.kind # "StartTag" THEN Panic(t, "builder")
    ELSE Continue([t EXCEPT !.latest_token.self_closing = TRUE])

----------------------------------------------------------------------------
(* The arms of `match self.state`: t is the tokenizer after the read, c    *)
(* the character read.                                                     *)

DataState(t, c) ==
    IF c = "<" THEN Continue([t EXCEPT !.state = "TagOpen"])
    ELSE IF is_eof(t) THEN Return(t, Eof)
    ELSE Return(t, CharTok(c))

\* a TagOpen that reverts to Data without handing the character back
TagOpenState_Mut(t, c) ==
    IF c = "/" THEN Continue([t EXCEPT !.state = "EndTagOpen"])
    ELSE IF is_ascii_alphabetic(c)
    THEN Continue(create_tag([t EXCEPT !.reconsume = TRUE, !.state = "TagName"], TRUE))
    ELSE IF is_eof(t) THEN Return(t, Eof)
    ELSE Continue([t EXCEPT !.state = "Data"])

TagOpenState(t, c) ==
    IF c = "/" THEN Continue([t EXCEPT !.state = "EndTagOpen"])
    ELSE IF is_ascii_alphabetic(c)
    THEN Continue(create_tag([t EXCEPT !.reconsume = TRUE, !.state = "TagName"], TRUE))
    ELSE IF is_eof(t) THEN Return(t, Eof)
    ELSE Continue([t EXCEPT !.reconsume = TRUE, !.state = "Data"])

\* a slip in EndTagOpen: the end tag is created as a start tag
EndTagOpenState_Mut(t, c) ==
    IF is_eof(t) THEN Return(t, Eof)
    ELSE IF is_ascii_alphabetic(c)
    THEN Continue(create_tag([t EXCEPT !.reconsume = TRUE, !.state = "TagName"], TRUE))
    ELSE Continue([t EXCEPT !.reconsume = TRUE, !.state = "Data"])

EndTagOpenState(t, c) ==
    IF is_eof(t) THEN Return(t, Eof)
    ELSE IF is_ascii_alphabetic(c)
    THEN Continue(create_tag([t EXCEPT !.reconsume = TRUE, !.state = "TagName"], FALSE))
    ELSE Continue([t EXCEPT !.reconsume = TRUE, !.state = "Data"])

\* a TagName that enters raw-text mode by itself after `<script>`
TagNameState_Auto(t, c) ==
    IF c = " " THEN Continue([t EXCEPT !.state = "BeforeAttributeName"])
    ELSE IF c = "/" THEN Continue([t EXCEPT !.state = "SelfClosingStartTag"])
    ELSE IF c = ">"
    THEN take_latest_token([t EXCEPT !.state =
            IF t.latest_token = StartTagTok(<<"s", "c", "r", "i", "p", "t">>, FALSE, <<>>)
            THEN "ScriptData" ELSE "Data"])
    ELSE IF is_ascii_uppercase(c) THEN append_tag_name(t, to_ascii_lowercase(c))
    ELSE IF is_eof(t) THEN Return(t, Eof)
    ELSE append_tag_name(t, c)

\* a slip in TagName: an uppercase letter is appended as it is
TagNameState_Mut(t, c) ==
    IF c = " " THEN Continue([t EXCEPT !.state = "BeforeAttributeName"])
    ELSE IF c = "/" THEN Continue([t EXCEPT !.state = "SelfClosingStartTag"])
    ELSE IF c = ">" THEN take_latest_token([t EXCEPT !.state = "Data"])
    ELSE IF is_eof(t) THEN Return(t, Eof)
    ELSE append_tag_name(t, c)

TagNameState(t, c) ==
    IF c = " " THEN Continue([t EXCEPT !.state = "BeforeAttributeName"])
    ELSE IF c = "/" THEN Continue([t EXCEPT !.state = "SelfClosingStartTag"])
    ELSE IF c = ">" THEN take_latest_token([t EXCEPT !.state = "Data"])
    ELSE IF is_ascii_uppercase(c) THEN append_tag_name(t, to_ascii_lowercase(c))
    ELSE IF is_eof(t) THEN Return(t, Eof)
    ELSE append_tag_name(t, c)

BeforeAttributeNameState(t, c) ==
    IF c = "/" \/ c = ">" \/ is_eof(t)
    THEN Continue([t EXCEPT !.reconsume = TRUE, !.state = "AfterAttributeName"])
    ELSE start_new_attribute([t EXCEPT !.reconsume = TRUE, !.state = "AttributeName"])

AttributeNameState(t, c) ==
    IF c = " " \/ c = "/" \/ c = ">" \/ is_eof(t)
    THEN Continue([t EXCEPT !.reconsume = TRUE, !.state = "AfterAttributeName"])
    ELSE IF c = "=" THEN Continue([t EXCEPT !.state = "BeforeAttributeValue"])
    ELSE IF is_ascii_uppercase(c) THEN append_attribute(t, to_ascii_lowercase(c), TRUE)
    ELSE append_attribute(t, c, TRUE)

\* an AfterAttributeName that goes on with the attribute it has
AfterAttributeNameState_Merge(t, c) ==
    IF c = " " THEN Continue(t)
    ELSE IF c = "/" THEN Continue([t EXCEPT !.state = "SelfClosingStartTag"])
    ELSE IF c = "=" THEN Continue([t EXCEPT !.state = "BeforeAttributeValue"])
    ELSE IF c = ">" THEN take_latest_token([t EXCEPT !.state = "Data"])
    ELSE IF is_eof(t) THEN Return(t, Eof)
    ELSE Continue([t EXCEPT !.reconsume = TRUE, !.state = "AttributeName"])

AfterAttributeNameState_Mut(t, c) ==
    IF c = " " THEN Continue([t EXCEPT !.reconsume = TRUE])
    ELSE IF c = "/" THEN Continue([t EXCEPT !.state = "SelfClosingStartTag"])
    ELSE IF c = "=" THEN Continue([t EXCEPT !.state = "BeforeAttributeValue"])
    ELSE IF c = ">" THEN take_latest_token([t EXCEPT !.state = "Data"])
    ELSE IF is_eof(t) THEN Return(t, Eof)
    ELSE start_new_attribute([t EXCEPT !.reconsume = TRUE, !.state = "AttributeName"])

AfterAttributeNameState(t, c) ==
    IF c = " " THEN Continue(t)
    ELSE IF c = "/" THEN Continue([t EXCEPT !.state = "SelfClosingStartTag"])
    ELSE IF c = "=" THEN Continue([t EXCEPT !.state = "BeforeAttributeValue"])
    ELSE IF c = ">" THEN take_latest_token([t EXCEPT !.state = "Data"])
    ELSE IF is_eof(t) THEN Return(t, Eof)
    ELSE start_new_attribute([t EXCEPT !.reconsume = TRUE, !.state = "AttributeName"])

BeforeAttributeValueState(t, c) ==
    IF c = " " THEN Continue(t)
    ELSE IF c = "\"" THEN Continue([t EXCEPT !.state = "AttributeValueDoubleQuoted"])
    ELSE IF c = "'" THEN Continue([t EXCEPT !.state = "AttributeValueSingleQuoted"])
    ELSE Continue([t EXCEPT !.reconsume = TRUE, !.state = "AttributeValueUnquoted"])

AttributeValueDoubleQuotedState(t, c) ==
    IF c = "\"" THEN Continue([t EXCEPT !.state = "AfterAttributeValueQuoted"])
    ELSE IF is_eof(t) THEN Return(t, Eof)
    ELSE append_attribute(t, c, FALSE)

AttributeValueSingleQuotedState(t, c) ==
    IF c = "'" THEN Continue([t EXCEPT !.state = "AfterAttributeValueQuoted"])
    ELSE IF is_eof(t) THEN Return(t, Eof)
    ELSE append_attribute(t, c, FALSE)

AttributeValueUnquotedState_Mut(t, c) ==
    IF c = " " THEN Continue([t EXCEPT !.state = "BeforeAttributeName"])
    ELSE IF c = ">" THEN take_latest_token([t EXCEPT !.state = "Data"])
    ELSE IF is_eof(t) THEN Return(t, Eof)
    ELSE append_attribute(t, c, FALSE)

AttributeValueUnquotedState(t, c) ==
    IF c = " " THEN Continue([t EXCEPT !.state = "BeforeAttributeName"])
    ELSE IF c = ">" THEN Continue([t EXCEPT !.state = "Data"])
    ELSE IF is_eof(t) THEN Return(t, Eof)
    ELSE append_attribute(t, c, FALSE)

AfterAttributeValueQuotedState(t, c) ==
    IF c = " " THEN Continue([t EXCEPT !.state = "BeforeAttributeName"])
    ELSE IF c = "/" THEN Continue([t EXCEPT !.state = "SelfClosingStartTag"])
    ELSE IF c = ">" THEN Continue([t EXCEPT !.state = "Data"])
    ELSE IF is_eof(t) THEN Return(t, Eof)
    ELSE Continue([t EXCEPT !.reconsume = TRUE, !.state = "BeforeAttributeValue"])

\* set_self_closing_flag, then self.state = Data, then take_latest_token
SelfClosingStartTagState(t, c) ==
    IF c = ">"
    THEN LET f == set_self_closing_flag(t)
         IN IF f.ctl = "panic" THEN f
            ELSE take_latest_token([f.t EXCEPT !.state = "Data"])
    ELSE IF is_eof(t) THEN Return(t, Eof)
    ELSE Continue(t)

ScriptDataState(t, c) ==
    IF c = "<" THEN Continue([t EXCEPT !.state = "ScriptDataLessThanSign"])
    ELSE IF is_eof(t) THEN Return(t, Eof)
    ELSE Return(t, CharTok(c))

ScriptDataLessThanSignState(t, c) ==
    IF c = "/" THEN Continue([t EXCEPT !.buf = <<>>, !.state = "ScriptDataEndTagOpen"])
    ELSE Return([t EXCEPT !.reconsume = TRUE, !.state = "ScriptData"], CharTok("<"))

\* a ScriptDataEndTagOpen that begins a start tag
ScriptDataEndTagOpenState_Mut(t, c) ==
    IF is_ascii_alphabetic(c)
    THEN Continue(create_tag(
             [t EXCEPT !.reconsume = TRUE, !.state = "ScriptDataEndTagName"], TRUE))
    ELSE Return([t EXCEPT !.reconsume = TRUE, !.state = "ScriptData"], CharTok("<"))

ScriptDataEndTagOpenState(t, c) ==
    IF is_ascii_alphabetic(c)
    THEN Continue(create_tag(
             [t EXCEPT !.reconsume = TRUE, !.state = "ScriptDataEndTagName"], FALSE))
    ELSE Return([t EXCEPT !.reconsume = TRUE, !.state = "ScriptData"], CharTok("<"))

ScriptDataEndTagNameState(t, c) ==
    IF c = ">" THEN take_latest_token([t EXCEPT !.state = "Data"])
    ELSE IF is_ascii_alphabetic(c)
    THEN append_tag_name([t EXCEPT !.buf = Append(@, c)], to_ascii_lowercase(c))
    ELSE Continue([t EXCEPT !.state = "TemporaryBuffer",
                            !.buf = Append(<<"<", "/">> \o @, c)])

TemporaryBufferState(t, c) ==
    IF Len(t.buf) = 0
    THEN Continue([t EXCEPT !.reconsume = TRUE, !.state = "ScriptData"])
    ELSE Return([t EXCEPT !.reconsume = TRUE, !.buf = Tail(@)], CharTok(Head(t.buf)))

\* `match self.state { ... }`
MatchState(t, c) ==
    CASE t.state = "Data" -> DataState(t, c)
      [] t.state = "TagOpen" -> TagOpenState(t, c)
      [] t.state = "EndTagOpen" -> EndTagOpenState(t, c)
      [] t.state = "TagName" -> TagNameState(t, c)
      [] t.state = "BeforeAttributeName" -> BeforeAttributeNameState(t, c)
      [] t.state = "AttributeName" -> AttributeNameState(t, c)
      [] t.state = "AfterAttributeName" -> AfterAttributeNameState(t, c)
      [] t.state = "BeforeAttributeValue" -> BeforeAttributeValueState(t, c)
      [] t.state = "AttributeValueDoubleQuoted" -> AttributeValueDoubleQuotedState(t, c)
      [] t.state = "AttributeValueSingleQuoted" -> AttributeValueSingleQuotedState(t, c)
      [] t.state = "AttributeValueUnquoted" -> AttributeValueUnquotedState(t, c)
      [] t.state = "AfterAttributeValueQuoted" -> AfterAttributeValueQuotedState(t, c)
      [] t.state = "SelfClosingStartTag" -> SelfClosingStartTagState(t, c)
      [] t.state = "ScriptData" -> ScriptDataState(t, c)
      [] t.state = "ScriptDataLessThanSign" -> ScriptDataLessThanSignState(t, c)
      [] t.state = "ScriptDataEndTagOpen" -> ScriptDataEndTagOpenState(t, c)
      [] t.state = "ScriptDataEndTagName" -> ScriptDataEndTagNameState(t, c)
      [] t.state = "TemporaryBuffer" -> TemporaryBufferState(t, c)

----------------------------------------------------------------------------
(* Inputs *)

Sigma == {"<", "/", ">", " ", "=", "\"", "'", "a", "A", "1"}

SeqsUpTo(S, n) == UNION {[1..k -> S] : k \in 0..n}

Prefixes == {
    <<"<", "a", " ">>,
    <<"<", "a", " ", "a", "=">>,
    <<"<", "a", " ", "a", "=", "\"">>,
    <<"<", "a", " ", "a", "=", "'">>,
    <<"<", "a", " ", "a", "=", "\"", "\"">>,
    <<"<", "a", ">">>,
    <<"<", "a", ">", "<", "/", "a">>,
    <<"<", "a", " ", "a", " ">> }

\* the inputs the specification and the claims name
Examples == {
    <<"<", "a", ">", "<", "/", "a", ">">>,
    <<"<", "d", "i", "v", " ", "c", "l", "a", "s", "s", "=", "\"", "a", " ", "b", "\"",
      " ", "d", "i", "s", "a", "b", "l", "e", "d", ">">>,
    <<"<", "b", "r", "/", ">">>,
    <<"<", "p", ">", "H", "i", "<", "/", "p", ">">>,
    <<"a", "<", "b">>,
    <<"<", "/", "a", " ", "b", ">">>,
    <<"<", "/", "a", "/", ">">>,
    <<"<", "a", " ", "=", "b", " ", "c", ">">>,
    <<"<", "a", " ", "h", "r", "e", "f", "=", "x", ">">>,
    <<"<", "a", " ", "h", "r", "e", "f", "=", "\"", "x", "\"", ">">>,
    <<"<", "a", " ", "h", "r", "e", "f", "=", "x", ">", "b", "<", "i", ">">>,
    <<"<", "s", "c", "r", "i", "p", "t", ">", "a">>,
    <<"<", "a", " ", "b", " ", " ", "C", " ", "d", "1", " ", ">", "x">> }

Inputs ==
    SeqsUpTo(Sigma, MaxLen)
    \cup {p \o w : p \in Prefixes, w \in SeqsUpTo(Sigma, MaxTail)}
    \cup Examples

----------------------------------------------------------------------------
(* The state machine *)

\* HtmlTokenizer::new
Init ==
    /\ input \in Inputs
    /\ state = "Data"
    /\ pos = 0
    /\ reconsume = FALSE
    /\ latest_token = None
    /\ buf = <<>>
    /\ pc = "idle"
    /\ ret = None
    /\ out = <<>>
    /\ panic = "none"
    /\ switched = FALSE
    /\ deferred = <<>>
    /\ NoUrlNoResponse

\* the entry of a pull: `if self.pos >= self.input.len() { return None; }`
next ==
    /\ pc = "idle"
    /\ IF pos >= Len(input)
       THEN pc' = "done" /\ ret' = None
       ELSE pc' = "loop" /\ ret' = ret
    /\ UNCHANGED <<state, pos, reconsume, latest_token, input, buf, out, panic,
                   switched, deferred>>
    /\ UNCHANGED <<urlvars, httpvars>>

\* the arms that go to Data on '>' without returning the pending token
NonEmitting == {"AttributeValueUnquoted", "AfterAttributeValueQuoted"}

\* One iteration of the loop of next(): rd is the read, r the arm's outcome.
Iterate(rd, r) ==
    /\ pc = "loop"
    /\ input' = input
    /\ switched' = switched
    /\ UNCHANGED <<urlvars, httpvars>>
    /\ IF ~rd.ok
       THEN /\ pc' = "panic"
            /\ panic' = "index"
            /\ UNCHANGED <<state, pos, reconsume, latest_token, buf, ret, out, deferred>>
       ELSE /\ state' = r.t.state
            /\ pos' = r.t.pos
            /\ reconsume' = r.t.reconsume
            /\ latest_token' = r.t.latest_token
            /\ buf' = r.t.buf
            /\ pc' = CASE r.ctl = "continue" -> "loop"
                       [] r.ctl = "return" -> "idle"
                       [] r.ctl = "panic" -> "panic"
            /\ panic' = IF r.ctl = "panic" THEN r.val.kind ELSE panic
            /\ ret' = IF r.ctl = "return" THEN r.val ELSE ret
            /\ out' = IF r.ctl = "return" THEN Append(out, r.val) ELSE out
            /\ deferred' = IF state \in NonEmitting /\ rd.c = ">"
                           THEN Append(deferred, latest_token) ELSE deferred

Data == state = "Data" /\ Iterate(ReadInput(Self), DataState(ReadInput(Self).t, ReadInput(Self).c))
TagOpen == state = "TagOpen" /\ Iterate(ReadInput(Self), TagOpenState(ReadInput(Self).t, ReadInput(Self).c))
EndTagOpen == state = "EndTagOpen" /\ Iterate(ReadInput(Self), EndTagOpenState(ReadInput(Self).t, ReadInput(Self).c))
TagName == state = "TagName" /\ Iterate(ReadInput(Self), TagNameState(ReadInput(Self).t, ReadInput(Self).c))
BeforeAttributeName == state = "BeforeAttributeName" /\ Iterate(ReadInput(Self), BeforeAttributeNameState(ReadInput(Self).t, ReadInput(Self).c))
AttributeName == state = "AttributeName" /\ Iterate(ReadInput(Self), AttributeNameState(ReadInput(Self).t, ReadInput(Self).c))
AfterAttributeName == state = "AfterAttributeName" /\ Iterate(ReadInput(Self), AfterAttributeNameState(ReadInput(Self).t, ReadInput(Self).c))
BeforeAttributeValue == state = "BeforeAttributeValue" /\ Iterate(ReadInput(Self), BeforeAttributeValueState(ReadInput(Self).t, ReadInput(Self).c))
AttributeValueDoubleQuoted == state = "AttributeValueDoubleQuoted" /\ Iterate(ReadInput(Self), AttributeValueDoubleQuotedState(ReadInput(Self).t, ReadInput(Self).c))
AttributeValueSingleQuoted == state = "AttributeValueSingleQuoted" /\ Iterate(ReadInput(Self), AttributeValueSingleQuotedState(ReadInput(Self).t, ReadInput(Self).c))
AttributeValueUnquoted == state = "AttributeValueUnquoted" /\ Iterate(ReadInput(Self), AttributeValueUnquotedState(ReadInput(Self).t, ReadInput(Self).c))
AfterAttributeValueQuoted == state = "AfterAttributeValueQuoted" /\ Iterate(ReadInput(Self), AfterAttributeValueQuotedState(ReadInput(Self).t, ReadInput(Self).c))
SelfClosingStartTag == state = "SelfClosingStartTag" /\ Iterate(ReadInput(Self), SelfClosingStartTagState(ReadInput(Self).t, ReadInput(Self).c))
ScriptData == state = "ScriptData" /\ Iterate(ReadInput(Self), ScriptDataState(ReadInput(Self).t, ReadInput(Self).c))
ScriptDataLessThanSign == state = "ScriptDataLessThanSign" /\ Iterate(ReadInput(Self), ScriptDataLessThanSignState(ReadInput(Self).t, ReadInput(Self).c))
ScriptDataEndTagOpen == state = "ScriptDataEndTagOpen" /\ Iterate(ReadInput(Self), ScriptDataEndTagOpenState(ReadInput(Self).t, ReadInput(Self).c))
ScriptDataEndTagName == state = "ScriptDataEndTagName" /\ Iterate(ReadInput(Self), ScriptDataEndTagNameState(ReadInput(Self).t, ReadInput(Self).c))
TemporaryBuffer == state = "TemporaryBuffer" /\ Iterate(ReadInput(Self), TemporaryBufferState(ReadInput(Self).t, ReadInput(Self).c))

\* The tree-construction collaborator sets the automaton state to ScriptData
\* between two pulls, after it received a StartTag (spec.md, sections 6 and 9).
SwitchToScriptData ==
    /\ pc = "idle"
    /\ state = "Data"
    /\ ret.kind = "StartTag"
    /\ state' = "ScriptData"
    /\ switched' = TRUE
    /\ UNCHANGED <<pos, reconsume, latest_token, input, buf, pc, ret, out, panic, deferred>>
    /\ UNCHANGED <<urlvars, httpvars>>

Next ==
    \/ next
    \/ Data
    \/ TagOpen
    \/ EndTagOpen
    \/ TagName
    \/ BeforeAttributeName
    \/ AttributeName
    \/ AfterAttributeName
    \/ BeforeAttributeValue
    \/ AttributeValueDoubleQuoted
    \/ AttributeValueSingleQuoted
    \/ AttributeValueUnquoted
    \/ AfterAttributeValueQuoted
    \/ SelfClosingStartTag
    \/ ScriptData
    \/ ScriptDataLessThanSign
    \/ ScriptDataEndTagOpen
    \/ ScriptDataEndTagName
    \/ TemporaryBuffer
    \/ SwitchToScriptData

Spec == Init /\ [][Next]_vars

----------------------------------------------------------------------------
(* What the claims speak of *)

\* the read the next iteration of the loop makes, and the character it yields
CurRead == ReadInput(Self)
CurChar == CurRead.c
\* this step ends a pull by returning Some(token)
Returns == pc = "loop" /\ pc' = "idle"
TagStates == {"TagOpen", "EndTagOpen", "TagName", "BeforeAttributeName",
              "AttributeName", "AfterAttributeName", "BeforeAttributeValue",
              "AttributeValueDoubleQuoted", "AttributeValueSingleQuoted",
              "AttributeValueUnquoted", "AfterAttributeValueQuoted",
              "SelfClosingStartTag"}
ScriptStates == {"ScriptData", "ScriptDataLessThanSign", "ScriptDataEndTagOpen",
                 "ScriptDataEndTagName", "TemporaryBuffer"}
Digits == {"0", "1", "2", "3", "4", "5", "6", "7", "8", "9"}
NameChars == LowerLetters \cup UpperLetters \cup Digits
Lowercased(s) == [i \in DOMAIN s |-> to_ascii_lowercase(s[i])]
HasUpper(s) == \E i \in DOMAIN s : is_ascii_uppercase(s[i])
\* every attribute of a StartTag has a non-empty name (but_last: but for the last)
NamedAttributes(tok, but_last) ==
    tok.kind = "StartTag" =>
        \A i \in DOMAIN tok.attributes :
            \/ tok.attributes[i].name # <<>>
            \/ but_last /\ i = Len(tok.attributes)

ExPlainA == <<"<", "a", ">", "<", "/", "a", ">">>
ExPlainP == <<"<", "p", ">", "H", "i", "<", "/", "p", ">">>
ExBr == <<"<", "b", "r", "/", ">">>
ExDiv == <<"<", "d", "i", "v", " ", "c", "l", "a", "s", "s", "=", "\"", "a", " ", "b",
           "\"", " ", "d", "i", "s", "a", "b", "l", "e", "d", ">">>

----------------------------------------------------------------------------
\* C1: from the Data state, when the pulls stop (next() returned None) an Eof
\* token has been returned and it is the last token returned; no token follows
\* an Eof.  (Stated for non-empty input, where a token precedes the end.)
C1_EofIsLastToken ==
    (~switched /\ input # <<>>) =>
        /\ pc = "done" => (Len(out) > 0 /\ out[Len(out)] = Eof)
        /\ \A i \in 1..(Len(out) - 1) : out[i] # Eof

\* C2: from the Data state no pull aborts by indexing the input at or beyond
\* its length (nor before its start).
C2_NoIndexPanic == ~switched => panic # "index"

\* C3: from the Data state no builder method is ever called with its
\* precondition false (no assert!/panic! of append_tag_name, take_latest_token,
\* start_new_attribute, append_attribute, set_self_closing_flag fires).
C3_NoBuilderPanic == ~switched => panic \notin {"assert", "builder"}

----------------------------------------------------------------------------
(* C4: markup made of text and attribute-less tags only, read off the text  *)
(* directly: a character other than '<' is text; a tag is '<', an optional  *)
(* '/', a name (a letter, then letters and digits) and '>'.                 *)

FirstGt(s) ==
    IF \E i \in DOMAIN s : s[i] = ">"
    THEN CHOOSE i \in DOMAIN s : s[i] = ">" /\ \A j \in 1..(i - 1) : s[j] # ">"
    ELSE 0
\* the name of the tag s[1..j], j the place of its '>'
PlainTagName(s, j) ==
    IF j >= 2 /\ Len(s) >= 2 /\ s[2] = "/" THEN SubSeq(s, 3, j - 1) ELSE SubSeq(s, 2, j - 1)
IsPlainName(n) ==
    /\ n # <<>>
    /\ is_ascii_alphabetic(n[1])
    /\ \A k \in DOMAIN n : n[k] \in NameChars

RECURSIVE IsPlainMarkup(_)
IsPlainMarkup(s) ==
    IF s = <<>> THEN TRUE
    ELSE IF s[1] # "<" THEN IsPlainMarkup(Tail(s))
    ELSE LET j == FirstGt(s)
         IN /\ j > 0
            /\ IsPlainName(PlainTagName(s, j))
            /\ IsPlainMarkup(SubSeq(s, j + 1, Len(s)))

RECURSIVE PlainTokens(_)
PlainTokens(s) ==
    IF s = <<>> THEN <<>>
    ELSE IF s[1] # "<" THEN <<CharTok(s[1])>> \o PlainTokens(Tail(s))
    ELSE LET j == FirstGt(s)
             n == Lowercased(PlainTagName(s, j))
         IN <<IF s[2] = "/" THEN EndTagTok(n) ELSE StartTagTok(n, FALSE, <<>>)>>
            \o PlainTokens(SubSeq(s, j + 1, Len(s)))

\* C4: on input made of attribute-less tags and text, between pulls the tokens
\* returned so far are exactly one StartTag or EndTag per tag read (its name,
\* self_closing false, no attributes) and one Char per text character read, in
\* input order, and no pull aborts.
C4_PlainMarkupTokens ==
    (~switched /\ IsPlainMarkup(input)) =>
        /\ panic = "none"
        /\ pc \in {"idle", "done"} => out = PlainTokens(SubSeq(input, 1, pos))
        /\ pc = "done" => pos = Len(input)

C4_Witness ==
    /\ ~switched
    /\ input = ExPlainP
    /\ pc = "done"
    /\ out = <<StartTagTok(<<"p">>, FALSE, <<>>), CharTok("H"), CharTok("i"),
               EndTagTok(<<"p">>)>>

----------------------------------------------------------------------------
(* C5: start tags with attributes *)

ValueStates == {"AttributeValueDoubleQuoted", "AttributeValueSingleQuoted",
                "AttributeValueUnquoted"}
ValuePhase == ValueStates \cup {"BeforeAttributeValue", "AfterAttributeValueQuoted"}
\* the arms in which a '>' ends the tag (the others are inside a quoted value, or
\* hand the '>' on by reconsuming it)
TagEndStates == {"TagName", "AfterAttributeName", "AttributeValueUnquoted",
                 "AfterAttributeValueQuoted", "SelfClosingStartTag"}
\* an iteration that reads a character while a start tag is being built
BuildingStartTag ==
    /\ pc = "loop"
    /\ CurRead.ok
    /\ latest_token.kind = "StartTag"
    /\ state \in TagStates \ {"TagOpen", "EndTagOpen"}
LastAttr(tok) == tok.attributes[Len(tok.attributes)]

\* inside a quoted value every character but the matching quote is appended to
\* the value of the last attribute, and nothing else of the token changes
C5_QuotedVerbatim ==
    (/\ BuildingStartTag
     /\ \/ state = "AttributeValueDoubleQuoted" /\ CurChar # "\""
        \/ state = "AttributeValueSingleQuoted" /\ CurChar # "'")
    => /\ state' = state
       /\ pc' = "loop"
       /\ Len(latest_token.attributes) > 0
       /\ latest_token' = [latest_token EXCEPT
              !.attributes[Len(latest_token.attributes)].value = Append(@, CurChar)]

\* attributes are added at the end only, as empty attributes, and only the last
\* one is ever changed
C5_SourceOrder ==
    (BuildingStartTag /\ latest_token'.kind = "StartTag") =>
        LET A == latest_token.attributes
            B == latest_token'.attributes
        IN /\ Len(B) \in {Len(A), Len(A) + 1}
           /\ \A i \in 1..(Len(A) - 1) : B[i] = A[i]
           /\ Len(B) = Len(A) + 1 => (B[Len(B)] = AttributeNew /\ \A i \in 1..Len(A) : B[i] = A[i])

\* a value grows only in the value arms, which are entered only after a '='
C5_ValueNeedsEquals ==
    (BuildingStartTag /\ latest_token'.kind = "StartTag") =>
        /\ (/\ Len(latest_token'.attributes) = Len(latest_token.attributes)
            /\ Len(latest_token.attributes) > 0
            /\ LastAttr(latest_token').value # LastAttr(latest_token).value)
           => state \in ValueStates
        /\ (state \notin ValuePhase /\ state' \in ValuePhase) => CurChar = "="

\* the '>' that ends a start tag makes the pull return that StartTag, with the
\* attributes built
C5_TagYielded ==
    (/\ BuildingStartTag
     /\ state \in TagEndStates
     /\ CurChar = ">"
     /\ Len(latest_token.attributes) > 0
     /\ \A i \in DOMAIN latest_token.attributes : latest_token.attributes[i].name # <<>>) =>
        /\ Returns
        /\ ret'.kind = "StartTag"
        /\ ret'.tag = latest_token.tag
        /\ ret'.attributes = latest_token.attributes

C5_Example ==
    (input = ExDiv /\ pc = "done") =>
        out = <<StartTagTok(<<"d", "i", "v">>, FALSE,
                  << [name |-> <<"c", "l", "a", "s", "s">>, value |-> <<"a", " ", "b">>],
                     [name |-> <<"d", "i", "s", "a", "b", "l", "e", "d">>, value |-> <<>>] >>)>>

\* what of C5 the code does: the rules for values and order, and the example
C5_ValueRules ==
    /\ [][C5_QuotedVerbatim /\ C5_SourceOrder /\ C5_ValueNeedsEquals]_vars
    /\ []C5_Example

\* C5: a start tag with attributes yields one StartTag whose attributes are in
\* source order, quoted values taken verbatim up to the matching quote, an
\* attribute without '=' having the empty value.
C5_StartTagAttributes ==
    /\ [][C5_TagYielded]_vars
    /\ C5_ValueRules

----------------------------------------------------------------------------
\* C6: a pull returns a StartTag only on '>' read in TagName, AfterAttributeName
\* or SelfClosingStartTag, and the StartTag has self_closing = TRUE exactly when
\* the arm was SelfClosingStartTag; "<br/>" yields that one StartTag and nothing
\* else (no EndTag).
C6_ReturnStep ==
    (Returns /\ ret'.kind = "StartTag") =>
        /\ CurChar = ">"
        /\ state \in {"TagName", "AfterAttributeName", "SelfClosingStartTag"}
        /\ ret'.self_closing <=> (state = "SelfClosingStartTag")
C6_Example ==
    (input = ExBr /\ pc = "done") => out = <<StartTagTok(<<"b", "r">>, TRUE, <<>>)>>
C6_SelfClosingFlag ==
    /\ [][C6_ReturnStep]_vars
    /\ []C6_Example

C6_Witness ==
    /\ input = ExBr
    /\ pc = "done"
    /\ Len(out) = 1
    /\ out[1].kind = "StartTag"
    /\ out[1].self_closing

----------------------------------------------------------------------------
\* C9: whenever a pull returns a StartTag or EndTag, the value returned is the
\* pending token as built (with the self-closing flag set by that arm, if it is
\* SelfClosingStartTag) and the pending token is None right afterwards, so that
\* between pulls nothing is pending after a tag was returned and no pull can
\* return that token again.
C9_TakeStep ==
    (Returns /\ IsTag(ret')) =>
        /\ IsTag(latest_token)
        /\ ret' = IF state = "SelfClosingStartTag"
                  THEN [latest_token EXCEPT !.self_closing = TRUE]
                  ELSE latest_token
        /\ latest_token' = None
C9_TakenOnce ==
    /\ [][C9_TakeStep]_vars
    /\ []((pc = "idle" /\ IsTag(ret)) => latest_token = None)

C9_Witness ==
    /\ pc = "idle"
    /\ Len(out) >= 2
    /\ IsTag(out[1])
    /\ IsTag(ret)
    /\ latest_token = None

----------------------------------------------------------------------------
(* C7: the whole tokenization of an input as a function of the input: the   *)
(* pulls of next() repeated until None or an abort, with the arms above.    *)
(* names collects the places of the input read in TagName or AttributeName. *)

RECURSIVE RunFrom(_, _, _, _)
RunFrom(t, inLoop, toks, names) ==
    IF ~inLoop /\ t.pos >= Len(t.input)
    THEN [out |-> toks, names |-> names, end |-> "done"]
    ELSE LET rd == ReadInput(t)
             r == MatchState(rd.t, rd.c)
             nm == IF t.state \in {"TagName", "AttributeName"}
                   THEN names \cup {rd.t.pos} ELSE names
         IN IF ~rd.ok THEN [out |-> toks, names |-> names, end |-> "index"]
            ELSE IF r.ctl = "panic" THEN [out |-> toks, names |-> nm, end |-> r.val.kind]
            ELSE IF r.ctl = "return" THEN RunFrom(r.t, FALSE, Append(toks, r.val), nm)
            ELSE RunFrom(r.t, TRUE, toks, nm)

Tokenize(text) ==
    RunFrom([state |-> "Data", pos |-> 0, reconsume |-> FALSE, latest_token |-> None,
             input |-> text, buf |-> <<>>], FALSE, <<>>, {})

\* the input with the characters of its tag and attribute names lowercased
LowerNames(text) ==
    LET names == Tokenize(text).names
    IN [i \in DOMAIN text |-> IF i \in names THEN to_ascii_lowercase(text[i]) ELSE text[i]]

TagNamesLower(tok) ==
    /\ IsTag(tok) => ~HasUpper(tok.tag)
    /\ tok.kind = "StartTag" =>
           \A i \in DOMAIN tok.attributes : ~HasUpper(tok.attributes[i].name)

\* C7: no tag name and no attribute name of a returned (or pending) tag token
\* holds an ASCII uppercase letter; the tokens returned are those the function
\* above gives, and it gives the same tokens, ending the same way, for the input
\* with its tag and attribute names lowercased.
C7_LowercaseNames ==
    /\ TagNamesLower(latest_token)
    /\ \A i \in DOMAIN out : TagNamesLower(out[i])
    /\ (~switched /\ pc \in {"done", "panic"}) =>
           /\ out = Tokenize(input).out
           /\ Tokenize(LowerNames(input)).out = out
           /\ Tokenize(LowerNames(input)).end = Tokenize(input).end

C7_Witness ==
    /\ ~switched
    /\ pc = "done"
    /\ LowerNames(input) # input
    /\ \E i \in DOMAIN out : out[i].kind = "StartTag" /\ Len(out[i].attributes) > 0
    /\ \E i \in DOMAIN input : input[i] = "A" /\ i \notin Tokenize(input).names

----------------------------------------------------------------------------
\* C8: a StartTag that was pending when '>' was read in AttributeValueUnquoted
\* or AfterAttributeValueQuoted is not lost: it stays the pending token until a
\* pull returns it, so that when the pulls have ended every such token has been
\* returned.
C8_DeferredStep ==
    (/\ pc = "loop"
     /\ deferred # <<>>
     /\ latest_token = deferred[Len(deferred)]
     /\ \A i \in DOMAIN latest_token.attributes : latest_token.attributes[i].name # <<>>
     /\ latest_token' # latest_token)
    => (Returns /\ ret' = latest_token)
C8_DeferredTagReturned ==
    /\ [][C8_DeferredStep]_vars
    /\ [](pc = "done" =>
            \A i \in DOMAIN deferred :
                NamedAttributes(deferred[i], FALSE) => \E j \in DOMAIN out : out[j] = deferred[i])

----------------------------------------------------------------------------
\* C10: no attribute has an empty name once the AttributeName arm is done with
\* it: in every state every attribute of the pending StartTag has a non-empty
\* name, but for the last one while the state is AttributeName, and every
\* attribute of every returned StartTag has a non-empty name.
C10_NoEmptyAttributeName ==
    /\ NamedAttributes(latest_token, state = "AttributeName" /\ pc # "panic")
    /\ \A i \in DOMAIN out : NamedAttributes(out[i], FALSE)

----------------------------------------------------------------------------
\* C11: the cursor never decreases, across every loop iteration and every
\* pull.  An iteration that reads either consumes (the flag was clear: the
\* cursor advances by exactly one and the character read is the one it
\* passed) or reconsumes (the flag was set: the cursor stays, the character
\* read is the one at cursor - 1, and the arm runs with the flag cleared).
\* Any other step (the entry of a pull, a read that fails) leaves the cursor.
C11_Step ==
    /\ pos' >= pos
    /\ IF pc = "loop" /\ CurRead.ok
       THEN IF reconsume
            THEN /\ pos' = pos
                 /\ CurChar = input[pos]
                 /\ ~CurRead.t.reconsume
            ELSE /\ pos' = pos + 1
                 /\ CurChar = input[pos']
                 /\ ~CurRead.t.reconsume
       ELSE pos' = pos
C11_CursorMonotonic == [][C11_Step]_vars
\* a pull that consumed a character and then read it again
C11_Witness ==
    /\ pc = "loop"
    /\ state = "TagName"
    /\ pos = 2
    /\ ~reconsume
    /\ latest_token = StartTagTok(<<"a">>, FALSE, <<>>)

----------------------------------------------------------------------------
\* The number of consecutive iterations of one pull, from t on, that read by
\* reconsume (the cursor does not move); at most fuel of them are followed.
RECURSIVE ReconsumeRun(_, _)
ReconsumeRun(t, fuel) ==
    IF ~t.reconsume \/ fuel = 0 THEN 0
    ELSE LET rd == ReadInput(t)
             r == MatchState(rd.t, rd.c)
         IN IF rd.ok /\ r.ctl = "continue"
            THEN 1 + ReconsumeRun(r.t, fuel - 1)
            ELSE 1

\* C12: every pull terminates.  No run of iterations that reconsume without
\* the cursor advancing is longer than two, and the measure
\* 3 * (characters left) + (reconsume-only iterations ahead) is never
\* negative and strictly decreases on every iteration that continues the
\* loop, so a pull ends (by a return or by an abort) after at most
\* 3 * Len(input) + 2 iterations.
C12_Measure == 3 * (Len(input) - pos) + ReconsumeRun(Self, MaxRun)
C12_Step == (pc = "loop" /\ pc' = "loop") => C12_Measure' < C12_Measure
C12_PullTerminates ==
    /\ [](ReconsumeRun(Self, MaxRun) <= 2 /\ C12_Measure >= 0)
    /\ [][C12_Step]_vars
\* two reconsume-only iterations ahead: `<a a=""b` after the closing quote
C12_Witness ==
    /\ pc = "loop"
    /\ state = "BeforeAttributeValue"
    /\ reconsume
    /\ ReconsumeRun(Self, MaxRun) = 2

----------------------------------------------------------------------------
\* C13: in script mode, when the match of an end tag is abandoned in
\* ScriptDataEndTagName after the letters L on a character c that is neither
\* a letter nor '>', the lookahead buffer is "</" + L + c, the following pulls
\* return its characters as Char tokens, one per pull in order, no pull ends
\* the run or aborts while characters of the buffer are outstanding, and
\* ScriptData then goes on with the input character after c; so the tokens of
\* a script text "</" + L + c + rest without another '<' spell that text,
\* wherever it stands in the input.
C13_AbandonStep ==
    (pc = "loop" /\ state = "ScriptDataEndTagName" /\ state' = "TemporaryBuffer")
    => /\ ~is_ascii_alphabetic(CurChar) /\ CurChar # ">"
       /\ buf' = <<"<", "/">> \o buf \o <<CurChar>>
C13_ReplayStep ==
    (pc = "loop" /\ state = "TemporaryBuffer" /\ buf # <<>>)
    => (Returns /\ ret' = CharTok(Head(buf)) /\ buf' = Tail(buf))
C13_ResumeStep ==
    (pc = "loop" /\ state = "TemporaryBuffer" /\ buf = <<>>)
    => (state' = "ScriptData" /\ pc' = "loop" /\ reconsume' /\ pos' = pos)
\* the input is `<a>` followed by the script text "</" + L + c + rest
C13_Form ==
    /\ Len(input) >= 7
    /\ SubSeq(input, 1, 5) = <<"<", "a", ">", "<", "/">>
    /\ \E k \in 6..(Len(input) - 1) :
          /\ \A i \in 6..k : is_ascii_alphabetic(input[i])
          /\ ~is_ascii_alphabetic(input[k + 1]) /\ input[k + 1] # ">"
          /\ \A j \in (k + 2)..Len(input) : input[j] # "<"
C13_Spelled ==
    (switched /\ C13_Form /\ pc \in {"done", "panic"})
    => /\ pc = "done"
       /\ out = <<StartTagTok(<<"a">>, FALSE, <<>>)>>
                 \o [i \in 1..(Len(input) - 3) |-> CharTok(input[i + 3])]
C13_BufferReplayed ==
    /\ [][C13_AbandonStep /\ C13_ReplayStep /\ C13_ResumeStep]_vars
    /\ []((state = "TemporaryBuffer" /\ buf # <<>>) => pc \notin {"done", "panic"})
    /\ []C13_Spelled

----------------------------------------------------------------------------
\* C14: the tokenizer never enters raw-text mode by itself.  While the mode
\* has not been switched from outside no script state is the current state,
\* whatever the input (`<script>` included), and the only step that leads
\* from a state outside the script states into one of them is the external
\* switch between two pulls, to ScriptData.
C14_Step ==
    (state \notin ScriptStates /\ state' \in ScriptStates)
    => (pc = "idle" /\ pc' = "idle" /\ state' = "ScriptData" /\ switched')
C14_NoRawTextBySelf ==
    /\ [](~switched => state \notin ScriptStates)
    /\ [][C14_Step]_vars
\* `<script>a` pulled to the end without a switch
C14_Witness ==
    /\ ~switched
    /\ pc = "done"
    /\ state = "Data"
    /\ out = <<StartTagTok(<<"s", "c", "r", "i", "p", "t">>, FALSE, <<>>), CharTok("a")>>

----------------------------------------------------------------------------
\* C20: the arm of '>' in AttributeValueUnquoted and AfterAttributeValueQuoted
\* changes only the automaton state, to Data: the iteration returns no token
\* (the loop continues, nothing is appended to the tokens returned), and the
\* pending token with its attributes, the lookahead buffer and the reconsume
\* flag are after the iteration what they were when the arm was entered, that
\* is after the read of '>'.
C20_Step ==
    (pc = "loop" /\ state \in NonEmitting /\ CurRead.ok /\ CurChar = ">")
    => /\ state' = "Data"
       /\ pc' = "loop" /\ ret' = ret /\ out' = out /\ panic' = panic
       /\ latest_token' = latest_token
       /\ buf' = buf
       /\ reconsume' = CurRead.t.reconsume
       /\ pos' = CurRead.t.pos
C20_OnlyStateChanges == [][C20_Step]_vars
\* `<a a="x">` after the '>' : in Data, the tag with its attribute still pending
C20_Witness ==
    /\ pc = "loop"
    /\ state = "Data"
    /\ pos = 9
    /\ SubSeq(input, 1, 9) = <<"<", "a", " ", "a", "=", "\"", "a", "\"", ">">>
    /\ latest_token = StartTagTok(<<"a">>, FALSE, <<[name |-> <<"a">>, value |-> <<"a">>]>>)
    /\ out = <<>>

----------------------------------------------------------------------------
(* Strings: a String or &str is a sequence of characters.                 *)

Drop(s, n) == SubSeq(s, n + 1, Len(s))
Take(s, n) == SubSeq(s, 1, n)
starts_with(s, p) == Len(p) <= Len(s) /\ SubSeq(s, 1, Len(p)) = p
\* str::find: the index (from 1) of the first occurrence of p in s, 0 for None
find(s, p) ==
    LET hits == {i \in 1..(Len(s) - Len(p) + 1) : SubSeq(s, i, i + Len(p) - 1) = p}
    IN IF hits = {} THEN 0 ELSE CHOOSE i \in hits : \A j \in hits : i <= j
contains(s, p) == find(s, p) # 0
\* str::trim_start_matches: every repetition of the prefix p is removed
RECURSIVE trim_start_matches(_, _)
trim_start_matches(s, p) ==
    IF p # <<>> /\ starts_with(s, p) THEN trim_start_matches(Drop(s, Len(p)), p) ELSE s
\* str::splitn(2, p) and str::split_once(p): one part when p does not occur
splitn2(s, p) ==
    LET i == find(s, p)
    IN IF i = 0 THEN <<s>> ELSE <<Take(s, i - 1), Drop(s, i + Len(p) - 1)>>

Ok(v) == [kind |-> "Ok", val |-> v]
Err(m) == [kind |-> "Err", msg |-> m]

----------------------------------------------------------------------------
(* url.rs *)

HttpScheme == <<"h", "t", "t", "p", ":", "/", "/">>

Url_new(u) == [url |-> u, host |-> <<>>, port |-> <<>>, path |-> <<>>, searchpart |-> <<>>]

is_http(self) == contains(self.url, HttpScheme)

\* `self.url.trim_start_matches("http://").splitn(2, "/").collect()`
url_parts(self) == splitn2(trim_start_matches(self.url, HttpScheme), <<"/">>)

extract_host(self) ==
    LET index == find(url_parts(self)[1], <<":">>)
    IN IF index # 0 THEN Take(url_parts(self)[1], index - 1) ELSE url_parts(self)[1]

extract_port(self) ==
    LET index == find(url_parts(self)[1], <<":">>)
    IN IF index # 0 THEN Drop(url_parts(self)[1], index) ELSE <<"8", "0">>

extract_path(self) ==
    IF Len(url_parts(self)) < 2 THEN <<>>
    ELSE splitn2(url_parts(self)[2], <<"?">>)[1]

extract_searchpart(self) ==
    IF Len(url_parts(self)) < 2 THEN <<>>
    ELSE LET path_and_searchpart == splitn2(url_parts(self)[2], <<"?">>)
         IN IF Len(path_and_searchpart) < 2 THEN <<>> ELSE path_and_searchpart[2]

\* Url::parse: the object after the call and the value returned
parse(self) ==
    IF ~is_http(self)
    THEN [self |-> self, result |-> Err("Only HTTP scheme is supported.")]
    ELSE LET parsed == [self EXCEPT !.host = extract_host(self),
                                    !.port = extract_port(self),
                                    !.path = extract_path(self),
                                    !.searchpart = extract_searchpart(self)]
         IN [self |-> parsed, result |-> Ok(parsed)]

\* the URL strings: a start, followed by every string over UrlSigma up to
\* MaxUrlTail, and the URLs of the tests of url.rs
MaxUrlTail == 4
UrlSigma == {"a", "8", ":", "/", "?"}
UrlStarts == {
    <<>>,
    HttpScheme,
    <<"h", "t", "t", "p", "s", ":", "/", "/">>,
    <<"a">> \o HttpScheme,
    <<"f", "t", "p", ":", "/", "/", "a", "/">> \o HttpScheme,
    HttpScheme \o HttpScheme }
UrlExamples == {
    <<"h", "t", "t", "p", ":", "/", "/", "e", "x", "a", "m", "p", "l", "e",
    ".", "c", "o", "m">>,
    <<"h", "t", "t", "p", ":", "/", "/", "e", "x", "a", "m", "p", "l", "e",
    ".", "c", "o", "m", ":", "8", "8", "8", "8">>,
    <<"h", "t", "t", "p", ":", "/", "/", "e", "x", "a", "m", "p", "l", "e",
    ".", "c", "o", "m", ":", "8", "8", "8", "8", "/", "i", "n", "d", "e",
    "x", ".", "h", "t", "m", "l">>,
    <<"h", "t", "t", "p", ":", "/", "/", "e", "x", "a", "m", "p", "l", "e",
    ".", "c", "o", "m", "/", "i", "n", "d", "e", "x", ".", "h", "t", "m",
    "l">>,
    <<"h", "t", "t", "p", ":", "/", "/", "e", "x", "a", "m", "p", "l", "e",
    ".", "c", "o", "m", ":", "8", "8", "8", "8", "/", "i", "n", "d", "e",
    "x", ".", "h", "t", "m", "l", "?", "a", "=", "1", "2", "3", "&", "b",
    "=", "4", "5", "6">>,
    <<"e", "x", "a", "m", "p", "l", "e", ".", "c", "o", "m">>,
    <<"h", "t", "t", "p", "s", ":", "/", "/", "e", "x", "a", "m", "p", "l",
    "e", ".", "c", "o", "m", ":", "8", "8", "8", "8", "/", "i", "n", "d",
    "e", "x", ".", "h", "t", "m", "l", "?", "a", "=", "1", "2", "3", "&",
    "b", "=", "4", "5", "6">> }
Urls == {p \o w : p \in UrlStarts, w \in SeqsUpTo(UrlSigma, MaxUrlTail)} \cup UrlExamples

\* no tokenizer at work: the one of the empty document, not pulled
NoTokenizer ==
    /\ input = <<>>
    /\ state = "Data"
    /\ pos = 0
    /\ reconsume = FALSE
    /\ latest_token = None
    /\ buf = <<>>
    /\ pc = "idle"
    /\ ret = None
    /\ out = <<>>
    /\ panic = "none"
    /\ switched = FALSE
    /\ deferred = <<>>

UrlInit == NoTokenizer /\ NoUrlNoResponse

\* Url::new(url)
UrlNew ==
    /\ url = NoValue
    /\ \E u \in Urls : url' = Url_new(u)
    /\ UNCHANGED <<url_result, tokvars, httpvars>>

\* url.parse()
UrlParse ==
    /\ url # NoValue
    /\ url' = parse(url).self
    /\ url_result' = parse(url).result
    /\ UNCHANGED <<tokvars, httpvars>>

UrlNext == UrlNew \/ UrlParse

UrlSpec == UrlInit /\ [][UrlNext]_vars

----------------------------------------------------------------------------
\* C15: Url::parse accepts only the http:// scheme: for every URL string that
\* does not start with "http://" (no scheme, "https://...", or another start
\* whose later text contains "http://") parse returns
\* Err("Only HTTP scheme is supported.") and host, port, path and searchpart
\* stay unset.
C15_OnlyHttpScheme ==
    (url_result # NoValue /\ ~starts_with(url.url, HttpScheme))
    => /\ url_result = Err("Only HTTP scheme is supported.")
       /\ url.host = <<>> /\ url.port = <<>>
       /\ url.path = <<>> /\ url.searchpart = <<>>

----------------------------------------------------------------------------
\* C16: for every URL http://HOST[:PORT][/PATH[?QUERY]] parse returns Ok with
\* host = HOST, port = PORT ("80" when no port is given), path = PATH without
\* its leading '/' (empty when absent) and searchpart = QUERY (empty when
\* absent), the split being at the first ':' of the authority, the first '/'
\* and the first '?': the fields put back together with their separators are
\* the URL, HOST has no ':' and no '/', PORT no '/', PATH no '?'.
C16_Compose(h, has_port, p, has_path, pa, has_query, q) ==
    HttpScheme \o h
    \o (IF has_port THEN <<":">> \o p ELSE <<>>)
    \o (IF has_path
        THEN <<"/">> \o pa \o (IF has_query THEN <<"?">> \o q ELSE <<>>)
        ELSE <<>>)
C16_SplitsHttpUrl ==
    (url_result # NoValue /\ starts_with(url.url, HttpScheme))
    => /\ url_result = Ok(url)
       /\ ~contains(url.host, <<":">>) /\ ~contains(url.host, <<"/">>)
       /\ ~contains(url.path, <<"?">>)
       /\ \E has_port, has_path, has_query \in BOOLEAN :
            /\ url.url = C16_Compose(url.host, has_port, url.port,
                                     has_path, url.path, has_query, url.searchpart)
            /\ IF has_port THEN ~contains(url.port, <<"/">>) ELSE url.port = <<"8", "0">>
            /\ has_path \/ (url.path = <<>> /\ ~has_query)
            /\ has_query \/ url.searchpart = <<>>

----------------------------------------------------------------------------
(* http.rs *)

\* char::is_whitespace, for the characters of the model
White == {" ", "\n", "\r", "\t"}

RECURSIVE trim_start(_)
trim_start(s) == IF s # <<>> /\ Head(s) \in White THEN trim_start(Tail(s)) ELSE s
RECURSIVE trim_end(_)
trim_end(s) ==
    IF s # <<>> /\ s[Len(s)] \in White THEN trim_end(Take(s, Len(s) - 1)) ELSE s
trim(s) == trim_end(trim_start(s))

\* str::replace: the occurrences of from, left to right, not overlapping
RECURSIVE replace(_, _, _)
replace(s, from, to) ==
    IF s = <<>> THEN <<>>
    ELSE IF starts_with(s, from) THEN to \o replace(Drop(s, Len(from)), from, to)
    ELSE <<Head(s)>> \o replace(Tail(s), from, to)

\* str::split: every part
RECURSIVE split(_, _)
split(s, p) ==
    IF find(s, p) = 0 THEN <<s>>
    ELSE <<Take(s, find(s, p) - 1)>> \o split(Drop(s, find(s, p) + Len(p) - 1), p)

\* str::split_once: None when p does not occur
split_once(s, p) ==
    IF find(s, p) = 0 THEN [some |-> FALSE]
    ELSE [some |-> TRUE, a |-> Take(s, find(s, p) - 1), b |-> Drop(s, find(s, p) + Len(p) - 1)]

DigitSeq == <<"0", "1", "2", "3", "4", "5", "6", "7", "8", "9">>
DigitValue(c) == (CHOOSE i \in DOMAIN DigitSeq : DigitSeq[i] = c) - 1
RECURSIVE DecimalValue(_)
DecimalValue(s) ==
    IF s = <<>> THEN 0 ELSE 10 * DecimalValue(Take(s, Len(s) - 1)) + DigitValue(s[Len(s)])
\* str::parse::<u32>: an optional '+', then digits only; None otherwise.  The
\* codes of the model have few digits, their value is far below 2^32.
parse_u32(s) ==
    LET digits == IF s # <<>> /\ Head(s) = "+" THEN Tail(s) ELSE s
    IN IF digits # <<>> /\ \A i \in DOMAIN digits : digits[i] \in Range(DigitSeq)
       THEN [some |-> TRUE, val |-> DecimalValue(digits)]
       ELSE [some |-> FALSE]

Header_new(name, value) == [name |-> name, value |-> value]

\* an index out of bounds, `statuses[1]`, `statuses[2]`, `splitted_header[1]`
Aborted == [kind |-> "panic", msg |-> "index out of bounds"]

\* HttpResponse::new: Ok(response), Err(Error::Network(..)), or the abort
HttpResponse_new(raw) ==
    LET preprocessed_response == replace(trim_start(raw), <<"\n", "\r">>, <<"\n">>)
        first == split_once(preprocessed_response, <<"\n">>)
    IN IF ~first.some
       THEN Err(<<"Network", "invalid http response: ", preprocessed_response>>)
       ELSE LET status_line == first.a
                remaining == first.b
                second == split_once(remaining, <<"\n", "\n">>)
                lines == IF second.some THEN split(second.a, <<"\n">>) ELSE <<>>
                body == IF second.some THEN second.b ELSE remaining
                statuses == split(status_line, <<" ">>)
                code == IF Len(statuses) >= 2 THEN parse_u32(statuses[2]) ELSE [some |-> FALSE]
            IN IF \E i \in DOMAIN lines : Len(splitn2(lines[i], <<":">>)) < 2
               THEN Aborted
               ELSE IF Len(statuses) < 3
               THEN Aborted
               ELSE Ok([version |-> statuses[1],
                        status_code |-> IF code.some THEN code.val ELSE 404,
                        reason |-> statuses[3],
                        headers |-> [i \in DOMAIN lines |->
                            Header_new(trim(splitn2(lines[i], <<":">>)[1]),
                                       trim(splitn2(lines[i], <<":">>)[2]))],
                        body |-> body])

\* HttpResponse::header_value
header_value(self, name) ==
    LET hits == {i \in DOMAIN self.headers : self.headers[i].name = name}
    IN IF hits = {}
       THEN Err(<<"failed to find ", name, " in headers">>)
       ELSE Ok(self.headers[CHOOSE i \in hits : \A j \in hits : i <= j].value)

\* The raw responses: every string over HttpSigma up to MaxRawLen, the starts
\* followed by every string up to MaxRawTail, the responses put together
\* from a status line, header lines and a body, and those of the tests.
MaxRawLen == 4
MaxRawTail == 3
MaxHeaders == 2
HttpSigma == {"H", "2", "a", " ", ":", "\n", "\r"}
RawStarts == {
    <<"H", " ", "2", " ", "O">>,
    <<"H", " ", "2", " ", "O", "\n">>,
    <<"H", " ", "2", " ", "O", "\n", "a", ":", "b">>,
    <<"H", " ", "2", " ", "O", "\n", "a", ":", "b", "\n">>,
    <<"H", " ", "2", " ", "O", "\n", "a", ":", "b", "\n", "\n">> }
Versions == {<<"H">>}
Codes == {<<"2">>, <<"2", "0">>, <<"a">>, <<"2", "a">>}
Reasons == {<<"O">>, <<"N", " ", "F">>}
HeaderLines == {<<"a", ":", "b">>, <<"a", ":", " ", "c", " ">>,
                <<" ", "A", " ", ":", "b", ":", "c">>, <<"b", ":">>}
Bodies == {<<>>, <<"b">>, <<"b", "\n", "\n", "b">>}
RECURSIVE Join(_, _)
Join(ss, sep) ==
    IF Len(ss) = 0 THEN <<>>
    ELSE IF Len(ss) = 1 THEN ss[1]
    ELSE ss[1] \o sep \o Join(Tail(ss), sep)
\* "VERSION CODE REASON\n" + header lines + "\n\n" + BODY
ResponseText(v, c, r, hs, b) ==
    v \o <<" ">> \o c \o <<" ">> \o r \o <<"\n">> \o Join(hs, <<"\n">>)
      \o <<"\n", "\n">> \o b
HeaderLists == UNION {[1..k -> HeaderLines] : k \in 1..MaxHeaders}
ComposedResponses ==
    {ResponseText(v, c, r, hs, b) :
        v \in Versions, c \in Codes, r \in Reasons, hs \in HeaderLists, b \in Bodies}
RawExamples == {
    <<"H", "T", "T", "P", "/", "1", ".", "1", " ", "2", "0", "0", " ", "O",
    "K", "\n", "\n">>,
    <<"H", "T", "T", "P", "/", "1", ".", "1", " ", "2", "0", "0", " ", "O",
    "K", "\n", "D", "a", "t", "e", ":", "x", "x", " ", "x", "x", " ", "x",
    "x", "\n", "\n">>,
    <<"H", "T", "T", "P", "/", "1", ".", "1", " ", "2", "0", "0", " ", "O",
    "K", "\n", "D", "a", "t", "e", ":", " ", "x", "x", " ", "x", "x", " ",
    "x", "x", "\n", "C", "o", "n", "t", "e", "n", "t", "-", "L", "e", "n",
    "g", "t", "h", ":", " ", "4", "2", "\n", "\n">>,
    <<"H", "T", "T", "P", "/", "1", ".", "1", " ", "2", "0", "0", " ", "O",
    "K", "\n", "D", "a", "t", "e", ":", " ", "x", "x", " ", "x", "x", " ",
    "x", "x", "\n", "\n", "b", "o", "d", "y", " ", "m", "e", "s", "s", "a",
    "g", "e">>,
    <<"H", "T", "T", "P", "/", "1", ".", "1", " ", "2", "0", "0", " ", "O",
    "K">> }
RawResponses ==
    SeqsUpTo(HttpSigma, MaxRawLen)
    \cup {p \o w : p \in RawStarts, w \in SeqsUpTo(HttpSigma, MaxRawTail)}
    \cup ComposedResponses
    \cup RawExamples
\* the names looked up
HeaderNames == {<<"a">>, <<"A">>, <<"b">>, <<"D", "a", "t", "e">>}

HttpInit == NoTokenizer /\ NoUrlNoResponse

\* HttpResponse::new(raw_response)
HttpNew ==
    /\ response = NoValue
    /\ \E raw \in RawResponses :
          /\ raw_response' = raw
          /\ response' = HttpResponse_new(raw)
    /\ UNCHANGED <<lookup, tokvars, urlvars>>

\* response.header_value(name)
HeaderValue ==
    /\ response # NoValue
    /\ response.kind = "Ok"
    /\ \E name \in HeaderNames :
          lookup' = [name |-> name, result |-> header_value(response.val, name)]
    /\ UNCHANGED <<raw_response, response, tokvars, urlvars>>

HttpNext == HttpNew \/ HeaderValue

HttpSpec == HttpInit /\ [][HttpNext]_vars

----------------------------------------------------------------------------
\* C17: HttpResponse::new on "VERSION CODE REASON\n" + header lines + "\n\n"
\* + BODY returns version = VERSION, status_code = CODE as a number (404 when
\* CODE is not a number), reason = REASON, body = BODY and one header per
\* header line, split at its first ':' with name and value trimmed; and
\* header_value(name) returns the value of the first header whose name is
\* exactly name (case-sensitive), an error when there is none.
C17_Number(c) ==
    CASE c = <<"2">> -> 2
      [] c = <<"2", "0">> -> 20
      [] OTHER -> 404
C17_Header(line) ==
    CASE line = <<"a", ":", "b">> -> [name |-> <<"a">>, value |-> <<"b">>]
      [] line = <<"a", ":", " ", "c", " ">> -> [name |-> <<"a">>, value |-> <<"c">>]
      [] line = <<" ", "A", " ", ":", "b", ":", "c">> ->
            [name |-> <<"A">>, value |-> <<"b", ":", "c">>]
      [] line = <<"b", ":">> -> [name |-> <<"b">>, value |-> <<>>]
C17_Forms ==
    {[raw |-> ResponseText(v, c, r, hs, b), version |-> v, code |-> c, reason |-> r,
      lines |-> hs, body |-> b] :
        v \in Versions, c \in Codes, r \in Reasons, hs \in HeaderLists, b \in Bodies}
C17_Parsed ==
    response # NoValue =>
        \A f \in C17_Forms :
            f.raw = raw_response =>
                response = Ok([version |-> f.version,
                               status_code |-> C17_Number(f.code),
                               reason |-> f.reason,
                               headers |-> [i \in DOMAIN f.lines |-> C17_Header(f.lines[i])],
                               body |-> f.body])
C17_Lookup ==
    lookup # NoValue =>
        LET hs == response.val.headers
        IN IF \E i \in DOMAIN hs : hs[i].name = lookup.name
           THEN \E i \in DOMAIN hs :
                    /\ hs[i].name = lookup.name
                    /\ \A j \in 1..(i - 1) : hs[j].name # lookup.name
                    /\ lookup.result = Ok(hs[i].value)
           ELSE lookup.result = Err(<<"failed to find ", lookup.name, " in headers">>)
C17_ResponseFields == C17_Parsed /\ C17_Lookup

----------------------------------------------------------------------------
\* C18: HttpResponse::new rejects every raw response that contains no blank
\* line anywhere (no two line breaks with at most carriage returns between
\* them), whether or not there is a line break after the status line: it does
\* not return Ok.
C18_NoBlankLine(raw) ==
    ~\E i, j \in DOMAIN raw :
        /\ i < j
        /\ raw[i] = "\n" /\ raw[j] = "\n"
        /\ \A k \in (i + 1)..(j - 1) : raw[k] = "\r"
C18_RejectsWithoutBlankLine ==
    (response # NoValue /\ C18_NoBlankLine(raw_response)) => response.kind # "Ok"

----------------------------------------------------------------------------
\* C19: HttpResponse::new never aborts on structurally short input: when the
\* status line has fewer than three space-separated tokens, or a line of the
\* header block has no ':', the result is an explicit Err, not an index out
\* of bounds.
C19_StatusLine(raw) ==
    split_once(replace(trim_start(raw), <<"\n", "\r">>, <<"\n">>), <<"\n">>)
C19_Short(raw) ==
    /\ C19_StatusLine(raw).some
    /\ \/ Len(split(C19_StatusLine(raw).a, <<" ">>)) < 3
       \/ LET block == split_once(C19_StatusLine(raw).b, <<"\n", "\n">>)
          IN /\ block.some
             /\ \E i \in DOMAIN split(block.a, <<"\n">>) :
                    ~contains(split(block.a, <<"\n">>)[i], <<":">>)
C19_NoAbortOnShortInput ==
    /\ response.kind # "panic"
    /\ (response # NoValue /\ C19_Short(raw_response)) => response.kind = "Err"

----------------------------------------------------------------------------
\* C21: in script mode a '<' followed by a character c other than '/' makes
\* the pull return Char('<') with c to be read again in ScriptData; a later
\* pull handles c there (Char(c) when c is not '<'), wherever c stands, the
\* last character included: no pull reports the end of the input while a
\* character handed back to ScriptData is still to be read.
C21_LessThanStep ==
    (pc = "loop" /\ state = "ScriptDataLessThanSign" /\ CurRead.ok /\ CurChar # "/")
    => /\ Returns /\ ret' = CharTok("<")
       /\ state' = "ScriptData" /\ reconsume'
       /\ pos' = CurRead.t.pos /\ input[pos'] = CurChar
C21_HandledStep ==
    (pc = "loop" /\ state = "ScriptData" /\ reconsume)
    => /\ CurRead.ok /\ CurChar = input[pos]
       /\ IF CurChar = "<"
          THEN pc' = "loop" /\ state' = "ScriptDataLessThanSign"
          ELSE Returns /\ ret' = CharTok(CurChar)
C21_ScriptLessThan ==
    /\ [][C21_LessThanStep /\ C21_HandledStep]_vars
    /\ []((state = "ScriptData" /\ reconsume) => pc # "done")

----------------------------------------------------------------------------
\* C22: in TagOpen a character that is neither '/' nor an ASCII letter, and
\* in EndTagOpen a character that is not an ASCII letter, reverts the
\* automaton to Data with that character to be read again: the iteration
\* creates no tag token and returns nothing, the pending token is unchanged,
\* and Data then reads the same character and handles it as its own (Char of
\* it, or TagOpen again when it is '<').
C22_Reverts ==
    /\ pc = "loop" /\ CurRead.ok
    /\ \/ state = "TagOpen" /\ CurChar # "/" /\ ~is_ascii_alphabetic(CurChar)
       \/ state = "EndTagOpen" /\ ~is_ascii_alphabetic(CurChar)
C22_RevertStep ==
    C22_Reverts
    => /\ state' = "Data" /\ reconsume' /\ pc' = "loop"
       /\ latest_token' = latest_token
       /\ out' = out /\ ret' = ret
       /\ pos' = CurRead.t.pos /\ input[pos'] = CurChar
C22_DataStep ==
    (pc = "loop" /\ state = "Data" /\ reconsume)
    => /\ CurRead.ok /\ CurChar = input[pos] /\ pos' = pos
       /\ latest_token' = latest_token
       /\ IF CurChar = "<"
          THEN pc' = "loop" /\ state' = "TagOpen" /\ out' = out
          ELSE Returns /\ ret' = CharTok(CurChar) /\ state' = "Data"
C22_RevertToData == [][C22_RevertStep /\ C22_DataStep]_vars
\* `</1`: EndTagOpen handed the '1' back and Data returned it
C22_Witness ==
    /\ input = <<"<", "/", "1">>
    /\ pos = 3
    /\ pc = "idle"
    /\ state = "Data"
    /\ out = <<CharTok("1")>>
    /\ latest_token = None

----------------------------------------------------------------------------
\* C23: consecutive attributes without a value, separated only by spaces,
\* each become an attribute of their own: for an input that begins with
\* <t n1 n2 ... nk> (k >= 1 names, a space after t, one or more spaces
\* between the names and possibly before the '>') the first token returned is
\* the StartTag t with exactly k attributes, in order, named n1..nk
\* (lowercased) with empty values, and a space read in AfterAttributeName
\* changes nothing.
RECURSIVE C23_Words(_)
C23_Words(s) ==
    IF s = <<>> THEN <<>>
    ELSE IF s[1] = " " THEN C23_Words(Tail(s))
    ELSE LET n == IF \E i \in DOMAIN s : s[i] = " "
                  THEN CHOOSE i \in DOMAIN s : s[i] = " " /\ \A j \in 1..(i - 1) : s[j] # " "
                  ELSE Len(s) + 1
         IN <<SubSeq(s, 1, n - 1)>> \o C23_Words(SubSeq(s, n, Len(s)))
\* the text between '<' and the first '>' : the tag name, then the names
C23_Inside == SubSeq(input, 2, FirstGt(input) - 1)
C23_Form ==
    /\ Len(input) >= 5
    /\ input[1] = "<"
    /\ FirstGt(input) >= 5
    /\ is_ascii_alphabetic(input[2])
    /\ \A i \in DOMAIN C23_Inside : C23_Inside[i] \in NameChars \cup {" "}
    /\ Len(C23_Words(C23_Inside)) >= 2
    /\ C23_Inside[Len(C23_Words(C23_Inside)[1]) + 2] # " "
C23_Expected ==
    StartTagTok(Lowercased(C23_Words(C23_Inside)[1]), FALSE,
        [i \in 1..(Len(C23_Words(C23_Inside)) - 1) |->
            [name |-> Lowercased(C23_Words(C23_Inside)[i + 1]), value |-> <<>>]])
C23_SpaceStep ==
    (pc = "loop" /\ state = "AfterAttributeName" /\ CurRead.ok /\ CurChar = " ")
    => (state' = "AfterAttributeName" /\ pc' = "loop" /\ latest_token' = latest_token)
C23_ValuelessAttributes ==
    /\ [][C23_SpaceStep]_vars
    /\ [](C23_Form => /\ (pc \in {"done", "panic"} => Len(out) >= 1)
                       /\ (Len(out) >= 1 => out[1] = C23_Expected))
\* `<a b  C d1 >x`: three names, two spaces in a row, a space before '>'
C23_Witness ==
    /\ C23_Form
    /\ Len(out) >= 1
    /\ Len(out[1].attributes) = 3
    /\ out[1].attributes[2].name = <<"c">>

----------------------------------------------------------------------------
\* C24: tags are not recognized in raw-text mode.  An iteration in one of the
\* script states that returns a token returns a Char or an EndTag (or the
\* end-of-input token), never a StartTag; the EndTag is returned by
\* ScriptDataEndTagName; and the automaton leaves the script states only
\* with the step that returns that EndTag, to Data.
C24_ReturnStep ==
    (pc = "loop" /\ state \in ScriptStates /\ Returns)
    => /\ ret'.kind \in {"Char", "EndTag", "Eof"}
       /\ ret'.kind = "EndTag" => state = "ScriptDataEndTagName"
C24_LeaveStep ==
    (state \in ScriptStates /\ state' \notin ScriptStates)
    => (pc = "loop" /\ Returns /\ ret'.kind = "EndTag" /\ state' = "Data")
C24_NoTagsInScript == [][C24_ReturnStep /\ C24_LeaveStep]_vars
\* `<a></a>` with the switch after the StartTag: the EndTag ends script mode
C24_Witness ==
    /\ switched
    /\ pc = "idle"
    /\ state = "Data"
    /\ out = <<StartTagTok(<<"a">>, FALSE, <<>>), EndTagTok(<<"a">>)>>

----------------------------------------------------------------------------
\* C25: in every reachable state the cursor is within the input,
\* 0 <= pos <= Len(input), and whenever the reconsume flag is set pos >= 1,
\* so that reconsume_input never reads at index pos - 1 with pos = 0.
C25_CursorInBounds ==
    /\ 0 <= pos /\ pos <= Len(input)
    /\ reconsume => pos >= 1
\* the flag set with the cursor at the end of the input
C25_Witness ==
    /\ pc = "loop"
    /\ reconsume
    /\ pos = Len(input)
    /\ state = "TagName"

====
